---- MODULE Spec2Model ----
(***************************************************************************)
(* Model of the Labeling Tool, "Python training code/main.py".             *)
(*                                                                         *)
(* The script is one sequential procedure: for each split, for each image  *)
(* file of the split, it polls the keyboard (cv2.waitKey) and lets the GUI *)
(* toolkit deliver mouse events to the callback draw_box.  The toolkit     *)
(* delivers mouse events only from inside waitKey, so the program's        *)
(* observable positions are the two waitKey calls (pc = "top" at line 57,  *)
(* pc = "preview" at line 67) and the two loop heads (pc = "split" at line *)
(* 37, pc = "image" at line 44).                                           *)
(*                                                                         *)
(* Numbers written to a label file are modelled as integers counting       *)
(* millionths: the text "0.200000" is the integer 200000.                  *)
(***************************************************************************)
EXTENDS Integers, Sequences, FiniteSets, TLC

VARIABLES
    pc,             \* position of the main procedure
    s,              \* index in `splits` of the split being processed
    img_files,      \* file names of the current split accepted by the filter
    i,              \* index in img_files of the current image (0: none yet)
    img,            \* persistent image: the green rectangles drawn on the pixels read from disk
    w, h,           \* dimensions of the current image
    current_boxes,  \* the box list
    drawing,        \* draw-in-progress flag
    ix, iy,         \* start corner
    shown,          \* content of window 'image': green and red rectangles
    preview,        \* content of window 'Preview' (NoWindow when closed)
    labels,         \* label files on disk: path -> [exists, lines]
    labelDirs,      \* splits whose labels directory exists
    ev,             \* the event handled last: <<context, what>>
    sinceLoad,      \* history: boxes committed since the image was loaded or reset
    armed,          \* history: a button-down since load/reset awaits its button-up
    orphans,        \* history: boxes of the list committed by a button-up with no such button-down
    discarded,      \* history: boxes of the current image emptied from the list by 'r'
    skipped,        \* history: boxes that were in the list when 'n' was handled at top level
    owner,          \* history: per label path, the image file whose 'y' wrote its content (<<>>: none)
    decoded,        \* img holds a decoded image (not None, not unset)
    presented,      \* history: the image files shown to the operator, in order
    commits         \* history: number of button-up events handled in the run

vars == <<pc, s, img_files, i, img, w, h, current_boxes, drawing, ix, iy,
          shown, preview, labels, labelDirs, ev, sinceLoad, armed, orphans,
          discarded, skipped, owner, decoded, presented, commits>>

----------------------------------------------------------------------------
(* Bounds of the model *)

\* button-up events handled in one run
MaxCommits == 2

----------------------------------------------------------------------------
(* Program constants and the dataset on disk *)

class_id == 0

splits == <<"train", "val", "test">>

\* number of decimal places of the format, as a power of ten
Scale == 1000000

\* a label path that holds no file, and a window that is not open
NoFile == [exists |-> FALSE, lines |-> <<>>]
NoWindow == [open |-> FALSE, green |-> <<>>, red |-> <<>>]

\* os.listdir of <dataset>/<split>/baseball: name = stem.ext, with the
\* dimensions of the decoded image
Listing(split) ==
    CASE split = "train" -> << [stem |-> "a", ext |-> "png", w |-> 100, h |-> 50],
                               [stem |-> "notes", ext |-> "txt", w |-> 0, h |-> 0],
                               [stem |-> "a", ext |-> "JPG", w |-> 100, h |-> 100] >>
      [] split = "val"   -> << >>
      [] split = "test"  -> << [stem |-> "b", ext |-> "jpeg", w |-> 30, h |-> 30] >>

\* the positions the operator's mouse reports on an image of the given
\* dimensions: two sample pixels inside the image, corners included
MousePts(iw, ih) ==
    CASE iw = 100 /\ ih = 50  -> { <<10, 10>>, <<30, 30>> }
      [] iw = 100 /\ ih = 100 -> { <<0, 0>>, <<50, 50>> }
      [] iw = 30  /\ ih = 30  -> { <<0, 30>>, <<30, 0>> }
      [] OTHER -> {}

\* every position of MousePts
Pts == { <<0, 0>>, <<10, 10>>, <<30, 30>>, <<50, 50>>, <<0, 30>>, <<30, 0>> }

----------------------------------------------------------------------------
(* Pure helpers *)

\* str.lower on the extensions that occur in the dataset
Lower(e) ==
    CASE e = "JPG" -> "jpg"
      [] e = "PNG" -> "png"
      [] e = "JPEG" -> "jpeg"
      [] OTHER -> e

\* f.lower().endswith(('.png', '.jpg', '.jpeg'))
Accepted(f) == Lower(f.ext) \in {"png", "jpg", "jpeg"}

\* os.path.join(labels_folder, os.path.splitext(img_name)[0] + '.txt')
LabelPath(split, f) == <<split, f.stem>>

\* every label path the dataset can give rise to
AllPaths == UNION { { <<splits[k], Listing(splits[k])[j].stem>> :
                        j \in 1..Len(Listing(splits[k])) } : k \in 1..Len(splits) }

Abs(n) == IF n < 0 THEN -n ELSE n

RECURSIVE ShiftMod(_, _, _)
\* (n * 2^k) mod d
ShiftMod(n, k, d) == IF k = 0 THEN n % d ELSE (2 * ShiftMod(n, k - 1, d)) % d

RECURSIVE Log2Quot(_, _)
\* for n >= d: the largest e with d * 2^e <= n
Log2Quot(n, d) == IF 2 * d <= n THEN 1 + Log2Quot(n, 2 * d) ELSE 0

RECURSIVE Log2Inv(_, _)
\* for 0 < n: the smallest j with n * 2^j >= d
Log2Inv(n, d) == IF n >= d THEN 0 ELSE 1 + Log2Inv(2 * n, d)

\* Python's float n/d for 0 < n, 0 < d is the 53-bit binary number nearest to
\* the quotient: floor(n * 2^k / d) is its mantissa before rounding, for this k
MantissaShift(n, d) == IF n >= d THEN 52 - Log2Quot(n, d) ELSE 52 + Log2Inv(n, d)

\* the float n/d is the quotient exactly
FloatExact(n, d) == ShiftMod(n, MantissaShift(n, d), d) = 0

\* the float n/d is greater than the quotient (division rounds to nearest, ties to even)
FloatAbove(n, d) ==
    LET k == MantissaShift(n, d)
        rem == ShiftMod(n, k, d)
    IN  \/ 2 * rem > d
        \/ 2 * rem = d /\ (2 * ShiftMod(n, k - 1, d)) \div d = 1

\* f"{n/d:.6f}" for n >= 0, d > 0, as an integer number of millionths: the
\* float n/d rounded to the nearest millionth, ties to even.  The float is a
\* tie only when it is the quotient exactly; otherwise a quotient halfway
\* between two millionths goes the way the division rounded it.
Fmt6Pos(n, d) ==
    LET t == n * Scale
        q == t \div d
        r == t - q * d
    IN  IF 2 * r < d THEN q
        ELSE IF 2 * r > d THEN q + 1
        ELSE IF FloatExact(n, d) THEN (IF q % 2 = 0 THEN q ELSE q + 1)
        ELSE IF FloatAbove(n, d) THEN q + 1 ELSE q

\* f"{n/d:.6f}" for d > 0; a negative quotient is formatted as its magnitude
\* with a minus sign
Fmt6(n, d) == IF n < 0 THEN 0 - Fmt6Pos(0 - n, d) ELSE Fmt6Pos(n, d)

\* the variant of LabelLine that forgets abs()
LabelLineSigned(box, iw, ih) ==
    << class_id,
       Fmt6(box[1] + box[3], 2 * iw),
       Fmt6(box[2] + box[4], 2 * ih),
       Fmt6(box[3] - box[1], iw),
       Fmt6(box[4] - box[2], ih) >>

\* lines 72-76: one label line of box (x1, y1, x2, y2) on an image iw x ih
LabelLine(box, iw, ih) ==
    << class_id,
       Fmt6(box[1] + box[3], 2 * iw),
       Fmt6(box[2] + box[4], 2 * ih),
       Fmt6(Abs(box[3] - box[1]), iw),
       Fmt6(Abs(box[4] - box[2]), ih) >>

\* lines 71-76: the content written for a box list
Lines(boxes, iw, ih) == [k \in 1..Len(boxes) |-> LabelLine(boxes[k], iw, ih)]

\* cv2.imshow('image', img)
ShowImg(image) == [open |-> TRUE, green |-> image, red |-> <<>>]

CurSplit == splits[s]
CurFile == img_files[i]

----------------------------------------------------------------------------
(* Initial state: nothing processed, the globals of lines 10-12 *)

Init ==
    /\ pc = "split"
    /\ s = 0
    /\ img_files = <<>>
    /\ i = 0
    /\ img = <<>>
    /\ w = 0
    /\ h = 0
    /\ current_boxes = <<>>
    /\ drawing = FALSE
    /\ ix = -1
    /\ iy = -1
    /\ shown = NoWindow
    /\ preview = NoWindow
    /\ labels = [p \in AllPaths |-> NoFile]
    /\ labelDirs = {}
    /\ ev = <<"init", "init">>
    /\ sinceLoad = <<>>
    /\ armed = FALSE
    /\ orphans = 0
    /\ discarded = 0
    /\ skipped = 0
    /\ owner = [p \in AllPaths |-> <<>>]
    /\ decoded = FALSE
    /\ presented = <<>>
    /\ commits = 0

----------------------------------------------------------------------------
(* The split loop and the image loop *)

\* lines 37-42: enter the next split
EnterSplit ==
    /\ pc = "split"
    /\ s < Len(splits)
    /\ s' = s + 1
    /\ labelDirs' = labelDirs \cup {splits[s + 1]}
    /\ img_files' = SelectSeq(Listing(splits[s + 1]), Accepted)
    /\ i' = 0
    /\ pc' = "image"
    /\ ev' = <<"loop", "split">>
    /\ UNCHANGED <<img, w, h, current_boxes, drawing, ix, iy, shown, preview,
                   labels, sinceLoad, armed, orphans, discarded, skipped, commits>>
    /\ UNCHANGED owner
    /\ UNCHANGED decoded
    /\ UNCHANGED presented

\* lines 91-92: all splits done
Finish ==
    /\ pc = "split"
    /\ s = Len(splits)
    /\ pc' = "done"
    /\ shown' = NoWindow
    /\ preview' = NoWindow
    /\ ev' = <<"loop", "done">>
    /\ UNCHANGED <<s, img_files, i, img, w, h, current_boxes, drawing, ix, iy,
                   labels, labelDirs, sinceLoad, armed, orphans, discarded, skipped, commits>>
    /\ UNCHANGED owner
    /\ UNCHANGED decoded
    /\ UNCHANGED presented

\* the variant of LoadImage that forgets line 48
LoadImageKeepBoxes ==
    /\ pc = "image"
    /\ i < Len(img_files)
    /\ i' = i + 1
    /\ img' = <<>>
    /\ w' = img_files[i + 1].w
    /\ h' = img_files[i + 1].h
    /\ shown' = ShowImg(img')
    /\ pc' = "top"
    /\ ev' = <<"loop", "load">>
    /\ sinceLoad' = <<>>
    /\ armed' = FALSE
    /\ orphans' = 0
    /\ discarded' = 0
    /\ skipped' = skipped
    /\ UNCHANGED <<s, img_files, current_boxes, drawing, ix, iy, preview, labels,
                   labelDirs, commits>>
    /\ UNCHANGED owner
    /\ decoded' = TRUE
    /\ presented' = Append(presented, <<splits[s], img_files[i + 1].stem, img_files[i + 1].ext>>)

\* lines 44-56: take the next image of the split, read it, empty the box list
LoadImage ==
    /\ pc = "image"
    /\ i < Len(img_files)
    /\ i' = i + 1
    /\ img' = <<>>
    /\ w' = img_files[i + 1].w
    /\ h' = img_files[i + 1].h
    /\ current_boxes' = <<>>
    /\ shown' = ShowImg(img')
    /\ pc' = "top"
    /\ ev' = <<"loop", "load">>
    /\ sinceLoad' = <<>>
    /\ armed' = FALSE
    /\ orphans' = 0
    /\ discarded' = 0
    /\ skipped' = skipped
    /\ UNCHANGED <<s, img_files, drawing, ix, iy, preview, labels, labelDirs,
                   commits>>
    /\ UNCHANGED owner
    /\ decoded' = TRUE
    /\ presented' = Append(presented, <<splits[s], img_files[i + 1].stem, img_files[i + 1].ext>>)

\* the variant of LoadImageFails that goes on to the key loop with the unread image
LoadImageFailsSilently ==
    /\ pc = "image"
    /\ i < Len(img_files)
    /\ i' = i + 1
    /\ img' = <<>>
    /\ pc' = "top"
    /\ ev' = <<"loop", "undecodable">>
    /\ UNCHANGED <<s, img_files, w, h, current_boxes, drawing, ix, iy, shown, preview,
                   labels, labelDirs, sinceLoad, armed, orphans, discarded, skipped,
                   owner, commits>>
    /\ decoded' = FALSE
    /\ UNCHANGED presented

\* lines 44-47: the next image cannot be decoded: cv2.imread returns None and
\* img.shape raises AttributeError, which nothing catches
LoadImageFails ==
    /\ pc = "image"
    /\ i < Len(img_files)
    /\ i' = i + 1
    /\ img' = <<>>
    /\ pc' = "crashed"
    /\ ev' = <<"loop", "undecodable">>
    /\ UNCHANGED <<s, img_files, w, h, current_boxes, drawing, ix, iy, shown, preview,
                   labels, labelDirs, sinceLoad, armed, orphans, discarded, skipped,
                   owner, commits>>
    /\ decoded' = FALSE
    /\ UNCHANGED presented

\* line 44: the split has no further image
EndSplit ==
    /\ pc = "image"
    /\ i = Len(img_files)
    /\ pc' = "split"
    /\ ev' = <<"loop", "endsplit">>
    /\ UNCHANGED <<s, img_files, i, img, w, h, current_boxes, drawing, ix, iy,
                   shown, preview, labels, labelDirs, sinceLoad, armed, orphans, discarded, skipped,
                   commits>>
    /\ UNCHANGED owner
    /\ UNCHANGED decoded
    /\ UNCHANGED presented

----------------------------------------------------------------------------
(* The mouse callback draw_box, lines 14-33 *)

\* lines 17-19
LButtonDown(x, y) ==
    /\ drawing' = TRUE
    /\ ix' = x
    /\ iy' = y
    /\ armed' = TRUE
    /\ UNCHANGED <<img, current_boxes, shown, sinceLoad, orphans, discarded, skipped, commits>>

\* lines 21-27: the live rectangle is drawn on a copy of img
MouseMove(x, y) ==
    /\ shown' = IF drawing
                THEN [open |-> TRUE, green |-> img \o current_boxes,
                      red |-> << <<ix, iy, x, y>> >>]
                ELSE shown
    /\ UNCHANGED <<img, current_boxes, drawing, ix, iy, sinceLoad, armed, orphans, discarded, skipped,
                   commits>>

\* the variant of LButtonUp that forgets line 32
LButtonUpNoDraw(x, y) ==
    /\ commits < MaxCommits
    /\ drawing' = FALSE
    /\ current_boxes' = Append(current_boxes, <<ix, iy, x, y>>)
    /\ img' = img
    /\ shown' = ShowImg(img')
    /\ sinceLoad' = Append(sinceLoad, <<ix, iy, x, y>>)
    /\ orphans' = IF armed THEN orphans ELSE orphans + 1
    /\ armed' = FALSE
    /\ commits' = commits + 1
    /\ UNCHANGED <<ix, iy>>

\* lines 29-33
LButtonUp(x, y) ==
    /\ commits < MaxCommits
    /\ drawing' = FALSE
    /\ current_boxes' = Append(current_boxes, <<ix, iy, x, y>>)
    /\ img' = Append(img, <<ix, iy, x, y>>)
    /\ shown' = ShowImg(img')
    /\ sinceLoad' = Append(sinceLoad, <<ix, iy, x, y>>)
    /\ orphans' = IF armed THEN orphans ELSE orphans + 1
    /\ armed' = FALSE
    /\ commits' = commits + 1
    /\ UNCHANGED <<ix, iy>>

\* the toolkit calls draw_box from inside either waitKey, for window 'image'
draw_box(event, x, y) ==
    /\ pc \in {"top", "preview"}
    /\ <<x, y>> \in MousePts(w, h)
    /\ CASE event = "down" -> LButtonDown(x, y)
         [] event = "move" -> MouseMove(x, y)
         [] event = "up"   -> LButtonUp(x, y)
    /\ ev' = <<"mouse", event>>
    /\ UNCHANGED <<pc, s, img_files, i, w, h, preview, labels, labelDirs, discarded, skipped>>
    /\ UNCHANGED owner
    /\ UNCHANGED decoded
    /\ UNCHANGED presented

----------------------------------------------------------------------------
(* The key loop of one image, lines 55-89 *)

\* the variant of KeySave that writes the label file at once
KeySaveWrites ==
    /\ pc = "top"
    /\ preview' = [open |-> TRUE, green |-> img, red |-> current_boxes]
    /\ labels' = [labels EXCEPT ![LabelPath(CurSplit, CurFile)] =
                     [exists |-> TRUE, lines |-> Lines(current_boxes, w, h)]]
    /\ pc' = "preview"
    /\ ev' = <<"top", "s">>
    /\ UNCHANGED <<s, img_files, i, img, w, h, current_boxes, drawing, ix, iy,
                   shown, labelDirs, sinceLoad, armed, orphans, discarded, skipped, commits>>
    /\ owner' = [owner EXCEPT ![LabelPath(CurSplit, CurFile)] = <<CurFile.stem, CurFile.ext>>]
    /\ UNCHANGED decoded
    /\ UNCHANGED presented

\* lines 59-65: key 's' opens Preview
KeySave ==
    /\ pc = "top"
    /\ preview' = [open |-> TRUE, green |-> img, red |-> current_boxes]
    /\ pc' = "preview"
    /\ ev' = <<"top", "s">>
    /\ UNCHANGED <<s, img_files, i, img, w, h, current_boxes, drawing, ix, iy,
                   shown, labels, labelDirs, sinceLoad, armed, orphans, discarded, skipped, commits>>
    /\ UNCHANGED owner
    /\ UNCHANGED decoded
    /\ UNCHANGED presented

\* lines 85-86: key 'n' leaves the key loop
KeySkip ==
    /\ pc = "top"
    /\ pc' = "image"
    /\ ev' = <<"top", "n">>
    /\ skipped' = skipped + Len(current_boxes)
    /\ UNCHANGED <<s, img_files, i, img, w, h, current_boxes, drawing, ix, iy,
                   shown, preview, labels, labelDirs, sinceLoad, armed, orphans, discarded,
                   commits>>
    /\ UNCHANGED owner
    /\ UNCHANGED decoded
    /\ UNCHANGED presented

\* the variant of KeyReset that forgets line 89
KeyResetNoReload ==
    /\ pc = "top"
    /\ current_boxes' = <<>>
    /\ shown' = ShowImg(img)
    /\ ev' = <<"top", "r">>
    /\ sinceLoad' = <<>>
    /\ armed' = FALSE
    /\ orphans' = 0
    /\ discarded' = discarded + Len(current_boxes)
    /\ skipped' = skipped
    /\ UNCHANGED <<pc, s, img_files, i, img, w, h, drawing, ix, iy, preview, labels,
                   labelDirs, commits>>
    /\ UNCHANGED owner
    /\ UNCHANGED decoded
    /\ UNCHANGED presented

\* lines 87-89, then line 56: key 'r' empties the box list and reads the image again
KeyReset ==
    /\ pc = "top"
    /\ current_boxes' = <<>>
    /\ img' = <<>>
    /\ shown' = ShowImg(img')
    /\ ev' = <<"top", "r">>
    /\ sinceLoad' = <<>>
    /\ armed' = FALSE
    /\ orphans' = 0
    /\ discarded' = discarded + Len(current_boxes)
    /\ skipped' = skipped
    /\ UNCHANGED <<pc, s, img_files, i, w, h, drawing, ix, iy, preview, labels,
                   labelDirs, commits>>
    /\ UNCHANGED owner
    /\ UNCHANGED decoded
    /\ UNCHANGED presented

\* lines 55-57: no key, or a key other than s, n, r: the loop shows img again
KeyOther ==
    /\ pc = "top"
    /\ shown' = ShowImg(img)
    /\ ev' = <<"top", "other">>
    /\ UNCHANGED <<pc, s, img_files, i, img, w, h, current_boxes, drawing, ix, iy,
                   preview, labels, labelDirs, sinceLoad, armed, orphans, discarded, skipped, commits>>
    /\ UNCHANGED owner
    /\ UNCHANGED decoded
    /\ UNCHANGED presented

\* the variant of PreviewConfirm that opens the file for appending
PreviewConfirmAppend ==
    /\ pc = "preview"
    /\ labels' = [labels EXCEPT ![LabelPath(CurSplit, CurFile)] =
                     [exists |-> TRUE,
                      lines |-> @.lines \o Lines(current_boxes, w, h)]]
    /\ preview' = NoWindow
    /\ pc' = "image"
    /\ ev' = <<"preview", "y">>
    /\ UNCHANGED <<s, img_files, i, img, w, h, current_boxes, drawing, ix, iy,
                   shown, labelDirs, sinceLoad, armed, orphans, discarded, skipped, commits>>
    /\ owner' = [owner EXCEPT ![LabelPath(CurSplit, CurFile)] = <<CurFile.stem, CurFile.ext>>]
    /\ UNCHANGED decoded
    /\ UNCHANGED presented

\* lines 68-78 and 83: key 'y' writes the label file and leaves the key loop
PreviewConfirm ==
    /\ pc = "preview"
    /\ labels' = [labels EXCEPT ![LabelPath(CurSplit, CurFile)] =
                     [exists |-> TRUE, lines |-> Lines(current_boxes, w, h)]]
    /\ preview' = NoWindow
    /\ pc' = "image"
    /\ ev' = <<"preview", "y">>
    /\ UNCHANGED <<s, img_files, i, img, w, h, current_boxes, drawing, ix, iy,
                   shown, labelDirs, sinceLoad, armed, orphans, discarded, skipped, commits>>
    /\ owner' = [owner EXCEPT ![LabelPath(CurSplit, CurFile)] = <<CurFile.stem, CurFile.ext>>]
    /\ UNCHANGED decoded
    /\ UNCHANGED presented

\* the variant of PreviewCancel that also empties the box list
PreviewCancelClears ==
    /\ pc = "preview"
    /\ preview' = NoWindow
    /\ current_boxes' = <<>>
    /\ pc' = "image"
    /\ ev' = <<"preview", "n">>
    /\ UNCHANGED <<s, img_files, i, img, w, h, drawing, ix, iy, shown, labels,
                   labelDirs, sinceLoad, armed, orphans, discarded, skipped, commits>>
    /\ UNCHANGED owner
    /\ UNCHANGED decoded
    /\ UNCHANGED presented

\* lines 79-83: key 'n' closes Preview and leaves the key loop
PreviewCancel ==
    /\ pc = "preview"
    /\ preview' = NoWindow
    /\ pc' = "image"
    /\ ev' = <<"preview", "n">>
    /\ UNCHANGED <<s, img_files, i, img, w, h, current_boxes, drawing, ix, iy,
                   shown, labels, labelDirs, sinceLoad, armed, orphans, discarded, skipped, commits>>
    /\ UNCHANGED owner
    /\ UNCHANGED decoded
    /\ UNCHANGED presented

\* lines 66-67: any other key: Preview keeps waiting
PreviewOther ==
    /\ pc = "preview"
    /\ ev' = <<"preview", "other">>
    /\ UNCHANGED <<pc, s, img_files, i, img, w, h, current_boxes, drawing, ix, iy,
                   shown, preview, labels, labelDirs, sinceLoad, armed, orphans, discarded, skipped,
                   commits>>
    /\ UNCHANGED owner
    /\ UNCHANGED decoded
    /\ UNCHANGED presented

----------------------------------------------------------------------------

Next ==
    \/ EnterSplit
    \/ Finish
    \/ LoadImage
    \/ LoadImageFails
    \/ EndSplit
    \/ \E event \in {"down", "move", "up"} : \E p \in Pts : draw_box(event, p[1], p[2])
    \/ KeySave
    \/ KeySkip
    \/ KeyReset
    \/ KeyOther
    \/ PreviewConfirm
    \/ PreviewCancel
    \/ PreviewOther

Spec == Init /\ [][Next]_vars

----------------------------------------------------------------------------
(* Properties *)

\* the label file of the current image
CurLabel == labels[LabelPath(CurSplit, CurFile)]

RECURSIVE SumLines(_)
\* the number of lines of the label files at the paths P
SumLines(P) ==
    IF P = {} THEN 0
    ELSE LET p == CHOOSE q \in P : TRUE
         IN  Len(labels[p].lines) + SumLines(P \ {p})

\* the number of lines of all label files
TotalLines == SumLines(AllPaths)

\* v is a nearest integer to n * Scale / d, for d > 0
Nearest(v, n, d) == 2 * Abs(v * d - n * Scale) <= d

\* line is "0 xc yc bw bh" of box on an image iw x ih, each field the exact
\* quotient rounded to 6 decimal places
LineOf(line, box, iw, ih) ==
    /\ line[1] = 0
    /\ Nearest(line[2], box[1] + box[3], 2 * iw)
    /\ Nearest(line[3], box[2] + box[4], 2 * ih)
    /\ Nearest(line[4], Abs(box[3] - box[1]), iw)
    /\ Nearest(line[5], Abs(box[4] - box[2]), ih)

\* boxes and image dimensions on which LabelLine is evaluated directly; the
\* widths 64 and 320 make quotients that lie halfway between two millionths
GridCoords == {0, 1, 3, 10, 30}
GridDims == { <<100, 50>>, <<64, 320>>, <<320, 64>> }
GridBoxes == GridCoords \X GridCoords \X GridCoords \X GridCoords

\* LabelLine on the grid: every field is the rounded quotient, and the line
\* does not depend on the drag direction
LabelLineOnGrid ==
    /\ \A d \in GridDims : \A b \in GridBoxes :
         /\ LineOf(LabelLine(b, d[1], d[2]), b, d[1], d[2])
         /\ LabelLine(b, d[1], d[2]) = LabelLine(<<b[3], b[4], b[1], b[2]>>, d[1], d[2])
         /\ LabelLine(b, d[1], d[2]) = LabelLine(<<b[3], b[2], b[1], b[4]>>, d[1], d[2])
    /\ LabelLine(<<10, 10, 30, 30>>, 100, 50) = <<0, 200000, 400000, 200000, 400000>>

\* C1: the content of a label file changes only in a step that handles key
\* 'y' while Preview is open.
C1_OnlyConfirmWrites ==
    [][labels' # labels => (pc = "preview" /\ ev' = <<"preview", "y">>)]_vars

\* a label file was written after mouse events, 's' and 'y'
C1_Witness ==
    /\ ev = <<"preview", "y">>
    /\ CurLabel.exists
    /\ commits >= 1

\* C2: after key 'n' in Preview the tool is back in the key loop of the same
\* image, with the box list kept.
C2_CancelReturnsToDrawing ==
    ev = <<"preview", "n">> => pc = "top"

\* C3: the file written on 'y' holds for each box the line "0 xc yc bw bh"
\* with xc = ((x1+x2)/2)/w, yc = ((y1+y2)/2)/h, bw = |x2-x1|/w, bh = |y2-y1|/h
\* rounded to 6 decimal places; the line of a box equals the line of the box
\* with swapped corners; box (10,10,30,30) on 100x50 gives
\* 0 0.200000 0.400000 0.200000 0.400000.
C3_LabelLineFormula ==
    /\ LabelLineOnGrid
    /\ ev = <<"preview", "y">> =>
        /\ Len(CurLabel.lines) = Len(current_boxes)
        /\ \A k \in 1..Len(current_boxes) :
             LET b == current_boxes[k]
                 l == CurLabel.lines[k]
             IN  /\ LineOf(l, b, w, h)
                 /\ LineOf(l, <<b[3], b[4], b[1], b[2]>>, w, h)
                 /\ LineOf(l, <<b[3], b[2], b[1], b[4]>>, w, h)
                 /\ (w = 100 /\ h = 50
                       /\ b \in { <<10, 10, 30, 30>>, <<30, 30, 10, 10>> })
                     => l = <<0, 200000, 400000, 200000, 400000>>

\* a box dragged from the lower right to the upper left was written
C3_Witness ==
    /\ ev = <<"preview", "y">>
    /\ w = 100
    /\ h = 50
    /\ current_boxes = << <<10, 10, 30, 30>>, <<30, 30, 10, 10>> >>
    /\ CurLabel.lines = << <<0, 200000, 400000, 200000, 400000>>,
                           <<0, 200000, 400000, 200000, 400000>> >>

\* C4: every spatial field of every line of every label file lies in [0,1]
\* (all mouse positions of the model lie inside the current image).
C4_FieldsInUnitRange ==
    \A p \in AllPaths : \A k \in 1..Len(labels[p].lines) : \A j \in 2..5 :
        /\ 0 <= labels[p].lines[k][j]
        /\ labels[p].lines[k][j] <= Scale

\* C5: on 'y' the label file of the current image holds exactly the lines of
\* the boxes committed since the image was loaded or last reset, in commit
\* order, whatever the file held before; box (0,0,50,50) alone on 100x100
\* gives the one line 0 0.250000 0.250000 0.500000 0.500000.
C5_FileIsBoxesSinceReset ==
    ev = <<"preview", "y">> =>
        /\ CurLabel.exists
        /\ Len(CurLabel.lines) = Len(sinceLoad)
        /\ \A k \in 1..Len(sinceLoad) : LineOf(CurLabel.lines[k], sinceLoad[k], w, h)
        /\ (w = 100 /\ h = 100 /\ sinceLoad = << <<0, 0, 50, 50>> >>)
             => CurLabel.lines = << <<0, 250000, 250000, 500000, 500000>> >>

\* boxes were committed, reset, one box committed and saved
C5_Witness ==
    /\ ev = <<"preview", "y">>
    /\ discarded >= 1
    /\ w = 100
    /\ h = 100
    /\ sinceLoad = << <<0, 0, 50, 50>> >>
    /\ CurLabel.lines = << <<0, 250000, 250000, 500000, 500000>> >>

\* C6: a step that handles key 'r' at top level empties the box list, puts
\* back the pixels read from disk, and changes no label file and not the
\* current image.
C6_ResetFrame ==
    [][ev' = <<"top", "r">> =>
          /\ current_boxes' = <<>>
          /\ img' = <<>>
          /\ labels' = labels
          /\ s' = s
          /\ i' = i
          /\ pc' = "top"]_vars

\* a reset that discarded boxes while a label file of the run is on disk
C6_Witness ==
    /\ ev = <<"top", "r">>
    /\ discarded >= 1
    /\ \E p \in AllPaths : labels[p].exists

\* C7: a step that handles key 'n' at top level writes no label file and
\* leaves the key loop of the image; whenever an image is then loaded it is
\* the next one of the split and the box list is empty; and the boxes of
\* skipped images are in no label file: the files hold at most as many lines
\* as boxes were committed on images that were not skipped.
C7_SkipWritesNothing ==
    [][/\ ev' = <<"top", "n">> => (labels' = labels /\ pc' = "image" /\ i' = i)
       /\ (pc = "image" /\ pc' = "top") => (i' = i + 1 /\ current_boxes' = <<>>)
       /\ TotalLines' <= commits' - skipped']_vars

\* a label file was written for an image after an image with a committed box
\* was skipped
C7_Witness ==
    /\ ev = <<"preview", "y">>
    /\ skipped >= 1
    /\ Len(CurLabel.lines) = 1
    /\ TotalLines = 1

\* C8: a step that handles key 'n' in Preview changes neither the box list
\* nor any label file.
C8_CancelFrame ==
    [][ev' = <<"preview", "n">> =>
          (current_boxes' = current_boxes /\ labels' = labels)]_vars

\* a cancel with boxes in the list and no label file of the image
C8_Witness ==
    /\ ev = <<"preview", "n">>
    /\ Len(current_boxes) >= 1
    /\ ~CurLabel.exists

\* C9: while Preview is open the box list is the list Preview shows.
C9_PreviewShowsBoxList ==
    pc = "preview" => current_boxes = preview.red

\* C10: every box of the box list was committed by the button-up matching a
\* button-down handled on the current image since it was loaded or reset.
C10_BoxesStartAtButtonDown ==
    orphans = 0

\* C11: a label file written for one image is never written for a different
\* image: 'y' on one image does not replace the label file of another image
\* of the split.
C11_OneImagePerLabelFile ==
    [][\A p \in AllPaths : owner[p] # <<>> => owner'[p] = owner[p]]_vars

\* C12: every spatial field of every line of every label file lies strictly
\* between 0 and 1; in particular no written line has width 0 or height 0.
C12_FieldsStrictlyInside ==
    \A p \in AllPaths : \A k \in 1..Len(labels[p].lines) : \A j \in 2..5 :
        /\ 0 < labels[p].lines[k][j]
        /\ labels[p].lines[k][j] < Scale

\* C13: whenever img holds an image, the green rectangles drawn on it are the
\* box list; a mouse-move changes neither the box list, nor the start corner,
\* nor img.
C13_ImageShowsBoxList ==
    [][/\ decoded' => img' = current_boxes'
       /\ ev' = <<"mouse", "move">> =>
            (current_boxes' = current_boxes /\ ix' = ix /\ iy' = iy /\ img' = img)]_vars

\* a live rectangle is shown over a committed box
C13_Witness ==
    /\ ev = <<"mouse", "move">>
    /\ drawing
    /\ Len(current_boxes) >= 1
    /\ img = current_boxes
    /\ shown.green = current_boxes \o current_boxes
    /\ Len(shown.red) = 1

\* C15: a step that finds the next image undecodable stops the tool at the
\* loop head: it changes no label file and records no write for the image,
\* and no event is handled afterwards (no step leaves the stopped state, which
\* is not the final state "done").
C15_DecodeFailureStops ==
    [][/\ pc # "crashed"
       /\ ev' = <<"loop", "undecodable">> =>
            /\ pc = "image"
            /\ pc' = "crashed"
            /\ labels' = labels
            /\ owner' = owner
            /\ current_boxes' = current_boxes]_vars

\* the image of split test is undecodable after a label file of split train
\* was written
C15_Witness ==
    /\ pc = "crashed"
    /\ ev = <<"loop", "undecodable">>
    /\ CurSplit = "test"
    /\ labels[<<"train", "a">>].exists
    /\ Len(labels[<<"train", "a">>].lines) >= 1
    /\ ~CurLabel.exists

\* the images of a split that pass the filter, in listing order
ImagesOf(split) ==
    LET fs == SelectSeq(Listing(split), Accepted)
    IN  [k \in 1..Len(fs) |-> <<split, fs[k].stem, fs[k].ext>>]

\* every image of every split, in split order train, val, test
AllImages == ImagesOf(splits[1]) \o ImagesOf(splits[2]) \o ImagesOf(splits[3])

\* the images are presented once each, in split order, and all of them when
\* the tool reaches its final state
PresentedInOrder ==
    /\ Len(presented) <= Len(AllImages)
    /\ presented = SubSeq(AllImages, 1, Len(presented))
    /\ pc = "done" => presented = AllImages

\* C14: every image of every split is presented exactly once, in split order
\* train, val, test, and its label file is written at most once in the run:
\* the file that 'y' writes has not been written before.
C14_PresentedOnceWrittenOnce ==
    [][/\ PresentedInOrder'
       /\ ev' = <<"preview", "y">> => ~CurLabel.exists]_vars

====
